---- MODULE Spec2Model ----
(***************************************************************************)
(* Permission-scoped retrieval chat backend (bedrock-chatbot).             *)
(*                                                                         *)
(* The module models the access configuration (the kb_domains and          *)
(* group_codes tables and the administrative handlers that write them),    *)
(* the access resolver, the classifier and the retrieval filter of         *)
(* app/services/bedrock.py, all in database mode (settings.use_mock_data   *)
(* is False by default, and the administrative handlers only write the     *)
(* database).                                                              *)
(*                                                                         *)
(* Strings whose characters the code inspects (storage paths, storage      *)
(* URIs) are sequences of one-character strings.  Domain and group codes   *)
(* are only compared for equality and ordered, so they are plain strings.  *)
(***************************************************************************)
EXTENDS Integers, Sequences, FiniteSets, TLC

VARIABLES
    kb_domains,    \* table kb_domains: code -> s3_path (a function on the stored codes)
    group_codes,   \* table group_codes: code -> the kb_domains column (list of codes)
    pending,       \* administrative requests that passed their checks and have not written yet
    call           \* the resolver / classifier / filter call that just returned, with
                   \* its arguments and result; NoCall after any other step

VARIABLES
    conversations, \* table conversations: conversation_id -> the row's employee_id,
                   \* message_count and updated_at
    messages,      \* table messages: the set of rows (message_id, conversation_id,
                   \* role, created_at)
    message_seq,   \* the last value of the BIGSERIAL behind messages.message_id
    clock,         \* the time get_utc_now() last returned
    turns          \* the POST /chat requests: the handler's and generate_stream's
                   \* locals, the position in the code, and the events sent so far

chatVars == <<conversations, messages, message_seq, clock, turns>>

vars == <<kb_domains, group_codes, pending, call, chatVars>>

----------------------------------------------------------------------------
(* Bounds of the model *)

\* administrative requests in flight between their check and their write
MaxPending == 2
\* retrieval hits in one retrieve response
MaxHits == 2

----------------------------------------------------------------------------
(* Data *)

\* Python's None where a string is expected (a group code, a domain code)
None == "None"

DomainCodes == {"HR", "LEGAL"}
\* SELECT ... FROM kb_domains ORDER BY code
CodeOrder == <<"HR", "LEGAL">>

\* the group an administrator creates; "G-X" is never created
GroupCodes == {"G-OPS"}
\* group_code values a chat turn may carry: absent, empty, stored or not, unknown
GroupCodeInputs == {None, "", "G-OPS", "G-X"}

PathEmpty == <<>>
PathHr == <<"h", "r", "/">>
PathLegal == <<"l", "e", "g", "a", "l", "/">>
PathHrLegal == <<"h", "r", "/", "l", "e", "g", "a", "l", "/">>
\* s3_path values of KBDomainRequest: any string, the empty one included
S3PathOrder == <<PathEmpty, PathHr, PathLegal, PathHrLegal>>
S3Paths == {S3PathOrder[i] : i \in DOMAIN S3PathOrder}

\* kb_domains values of GroupCodeRequest
KbDomainLists == {<<>>, <<"HR">>, <<"LEGAL">>, <<"HR", "LEGAL">>}

UriHrPolicy == <<"s", "3", ":", "/", "/", "k", "b", "/", "h", "r", "/", "p">>
UriLegalContract == <<"s", "3", ":", "/", "/", "k", "b", "/", "l", "e", "g", "a", "l", "/", "c">>
UriHrLegal == <<"s", "3", ":", "/", "/", "k", "b", "/", "h", "r", "/", "l", "e", "g", "a", "l", "/", "c">>
UriMisc == <<"s", "3", ":", "/", "/", "k", "b", "/", "m", "i", "s", "c">>

\* A retrieval hit: has_uri is FALSE when the hit has no location.s3Location
\* (or its uri is None); text is the content snippet.
Hit(has_uri, uri, text) == [has_uri |-> has_uri, uri |-> uri, text |-> text]

HitPool ==
    { Hit(TRUE, UriHrPolicy, "policy"),
      Hit(TRUE, UriLegalContract, "contract"),
      Hit(TRUE, UriHrLegal, "hr-legal"),
      Hit(TRUE, UriMisc, "misc"),
      Hit(FALSE, <<>>, "no-location") }

HitLists == UNION { [1..n -> HitPool] : n \in 0..MaxHits }

\* allow-lists handed to the filter: the prefixes of any set of domains, in
\* table order (the filter only tests membership in the list)
AllowLists == { SelectSeq(S3PathOrder, LAMBDA p : p \in S) : S \in SUBSET S3Paths }

----------------------------------------------------------------------------
(* Strings *)

\* str.startswith
StartsWith(s, p) == Len(p) <= Len(s) /\ SubSeq(s, 1, Len(p)) = p

\* str.endswith
EndsWith(s, p) == Len(p) <= Len(s) /\ SubSeq(s, Len(s) - Len(p) + 1, Len(s)) = p

\* p in s (substring)
Contains(s, p) == \E i \in 0..(Len(s) - Len(p)) : SubSeq(s, i + 1, i + Len(p)) = p

\* index of the first character of s that is in cs, Len(s) + 1 when there is none
RECURSIVE FindFrom(_, _, _)
FindFrom(s, cs, i) ==
    IF i > Len(s) THEN Len(s) + 1
    ELSE IF s[i] \in cs THEN i
    ELSE FindFrom(s, cs, i + 1)

\* str.lstrip('/')
RECURSIVE LStripSlash(_)
LStripSlash(s) ==
    IF s # <<>> /\ Head(s) = "/" THEN LStripSlash(Tail(s)) ELSE s

Letters == {"a", "b", "c", "e", "g", "h", "i", "k", "l", "m", "p", "r", "s"}
SchemeChars == Letters \cup {"3", "+", "-", "."}

\* urllib.parse.urlparse(s3_uri).path : the scheme up to the first ':' (when it
\* is a scheme), then the netloc after '//' up to the next '/', '?' or '#', then
\* the path up to a '?' or '#'.
UrlParsePath(u) ==
    LET colon == FindFrom(u, {":"}, 1)
        hasScheme == /\ colon <= Len(u)
                     /\ colon > 1
                     /\ u[1] \in Letters
                     /\ \A i \in 1..(colon - 1) : u[i] \in SchemeChars
        rest == IF hasScheme THEN SubSeq(u, colon + 1, Len(u)) ELSE u
        hasNetloc == Len(rest) >= 2 /\ SubSeq(rest, 1, 2) = <<"/", "/">>
        delim == FindFrom(rest, {"/", "?", "#"}, 3)
        afterLoc == IF hasNetloc THEN SubSeq(rest, delim, Len(rest)) ELSE rest
        stop == FindFrom(afterLoc, {"?", "#"}, 1)
    IN  SubSeq(afterLoc, 1, stop - 1)

----------------------------------------------------------------------------
(* Tables *)

NoCall == [op |-> "none"]

\* dict / table with one row written
Put(table, key, value) ==
    [k \in (DOMAIN table) \cup {key} |-> IF k = key THEN value ELSE table[k]]

\* table with one row deleted
Remove(table, key) == [k \in (DOMAIN table) \ {key} |-> table[k]]

\* ",".join(request.kb_domains) if request.kb_domains else "": the column is
\* the codes of the request, in request order, with a "," between two codes
RECURSIVE JoinKbDomains(_)
JoinKbDomains(list) ==
    IF Len(list) <= 1 THEN list
    ELSE <<Head(list), ",">> \o JoinKbDomains(Tail(list))

\* [d.strip() for d in kb_domains_str.split(",") if d.strip()] if kb_domains_str else []
ParseKbDomains(column) == SelectSeq(column, LAMBDA d : d \notin {",", ""})

Range(seq) == {seq[i] : i \in DOMAIN seq}

\* a table with no row
EmptyTable == [k \in {} |-> <<>>]

\* the POST /chat requests the model follows, each from its arrival to the
\* close of its stream, named in the order of their arrival
Turns == {"t1", "t2"}
TurnOrder == <<"t1", "t2">>

\* a request that has not arrived: the locals of chat() and generate_stream()
\* before their first assignment
IdleTurn ==
    [ pc |-> "idle",
      employee_id |-> None, group_code |-> None, conversation_id |-> None,
      message |-> 0,                  \* len(request.message)
      status |-> None,                \* the error of the HTTPException raised
      is_new_conversation |-> FALSE,
      user_message_saved |-> FALSE,
      user_message |-> 0,             \* message_id add_message(role="user") returned
                                      \* (0: none; the ids of the sequence start at 1)
      pre_count |-> 0,                \* message_count before add_message(role="user")
      events |-> <<>>,                \* the SSE events yielded, in order
      retrieval_results |-> 0,        \* len(retrieve_response["retrievalResults"])
      filtered_results |-> 0,         \* len(filter_result["allowed"])
      blocked_domains |-> {},         \* filter_result["blocked_domains"]
      citations |-> 0,                \* len(citations) of the service
      allowed |-> <<>>,               \* filter_result["allowed"]
      blocked |-> <<>>,               \* filter_result["blocked"]
      context_texts |-> <<>>,         \* the snippets joined into the prompt
      citation_uris |-> <<>>,         \* s3_uri of each citation of the service
      metadata_sources |-> <<>>,      \* the sources of the metadata event
      stored_sources |-> <<>>,        \* the sources stored with the assistant message
      retrievals |-> 0,               \* calls of client.retrieve
      service_error |-> None,         \* error kind of the service's error event
      error |-> None,                 \* error kind of the error event to send
      rollbacks |-> 0,                \* calls of remove_last_message that returned
      branch |-> None,                \* the branch retrieve_and_generate_stream took
      invoked |-> FALSE,              \* _invoke_model_stream was called
      deltas |-> 0,                   \* text deltas the generation stream yielded
      full_text |-> 0,                \* len(full_text)
      usage |-> 0,                    \* total tokens of the usage the model reported
                                      \* with its stop chunk (0: none reported)
      total_tokens |-> 0,             \* total_tokens of generate_stream
      assistant_message |-> 0 ]       \* message_id add_message(role="assistant") returned

\* the conversation store before any request
InitStore ==
    /\ conversations = EmptyTable
    /\ messages = {}
    /\ message_seq = 0
    /\ clock = 0
    /\ turns = [t \in Turns |-> IdleTurn]

Init ==
    /\ kb_domains = EmptyTable
    /\ group_codes = EmptyTable
    /\ pending = {}
    /\ call = NoCall
    /\ InitStore

----------------------------------------------------------------------------
(* Administrative handlers (app/routers/admin.py).  A handler whose check and *)
(* write are separate awaited statements, and whose write another handler's  *)
(* check depends on, is two actions with the request in `pending` between    *)
(* them.  A rejected request (HTTP 400 / 404) changes nothing and is not an  *)
(* action.                                                                   *)

\* "KB Domain 유효성 검사": every requested code is a row of kb_domains
KbDomainsExist(list) == \A i \in DOMAIN list : list[i] \in DOMAIN kb_domains

\* delete_kb_domain's "Group Code에서 참조하는지 확인"
ReferencedByGroup(code) ==
    \E g \in DOMAIN group_codes : code \in Range(ParseKbDomains(group_codes[g]))

\* POST /admin/group-codes, up to the INSERT
CreateGroupCodeValidate(code, list) ==
    /\ Cardinality(pending) < MaxPending
    /\ code \notin DOMAIN group_codes
    /\ KbDomainsExist(list)
    /\ pending' = pending \cup {[op |-> "create_group_code", code |-> code, kb_domains |-> list]}
    /\ call' = NoCall
    /\ UNCHANGED <<kb_domains, group_codes, chatVars>>

\* POST /admin/group-codes, the INSERT (a duplicate key fails the request)
CreateGroupCodeInsert(req) ==
    /\ req \in pending
    /\ req.op = "create_group_code"
    /\ group_codes' = IF req.code \in DOMAIN group_codes
                          THEN group_codes
                          ELSE Put(group_codes, req.code, JoinKbDomains(req.kb_domains))
    /\ pending' = pending \ {req}
    /\ call' = NoCall
    /\ UNCHANGED <<kb_domains, chatVars>>

\* PUT /admin/group-codes/{code}, up to the UPDATE
UpdateGroupCodeValidate(code, list) ==
    /\ Cardinality(pending) < MaxPending
    /\ code \in DOMAIN group_codes
    /\ KbDomainsExist(list)
    /\ pending' = pending \cup {[op |-> "update_group_code", code |-> code, kb_domains |-> list]}
    /\ call' = NoCall
    /\ UNCHANGED <<kb_domains, group_codes, chatVars>>

\* PUT /admin/group-codes/{code}, the UPDATE ... WHERE code = $4
UpdateGroupCodeWrite(req) ==
    /\ req \in pending
    /\ req.op = "update_group_code"
    /\ group_codes' = IF req.code \in DOMAIN group_codes
                          THEN Put(group_codes, req.code, JoinKbDomains(req.kb_domains))
                          ELSE group_codes
    /\ pending' = pending \ {req}
    /\ call' = NoCall
    /\ UNCHANGED <<kb_domains, chatVars>>

\* DELETE /admin/group-codes/{code}
DeleteGroupCode(code) ==
    /\ code \in DOMAIN group_codes
    /\ group_codes' = Remove(group_codes, code)
    /\ call' = NoCall
    /\ UNCHANGED <<kb_domains, pending, chatVars>>

\* POST /admin/kb-domains: s3_path is stored as requested
CreateKbDomain(code, s3_path) ==
    /\ code \notin DOMAIN kb_domains
    /\ kb_domains' = Put(kb_domains, code, s3_path)
    /\ call' = NoCall
    /\ UNCHANGED <<group_codes, pending, chatVars>>

\* PUT /admin/kb-domains/{code}
UpdateKbDomain(code, s3_path) ==
    /\ code \in DOMAIN kb_domains
    /\ kb_domains' = Put(kb_domains, code, s3_path)
    /\ call' = NoCall
    /\ UNCHANGED <<group_codes, pending, chatVars>>

\* DELETE /admin/kb-domains/{code}, up to the DELETE
DeleteKbDomainCheck(code) ==
    /\ Cardinality(pending) < MaxPending
    /\ code \in DOMAIN kb_domains
    /\ ~ReferencedByGroup(code)
    /\ pending' = pending \cup {[op |-> "delete_kb_domain", code |-> code, kb_domains |-> <<>>]}
    /\ call' = NoCall
    /\ UNCHANGED <<kb_domains, group_codes, chatVars>>

\* DELETE /admin/kb-domains/{code}, the DELETE
DeleteKbDomainDelete(req) ==
    /\ req \in pending
    /\ req.op = "delete_kb_domain"
    /\ kb_domains' = Remove(kb_domains, req.code)
    /\ pending' = pending \ {req}
    /\ call' = NoCall
    /\ UNCHANGED <<group_codes, chatVars>>

----------------------------------------------------------------------------
(* Access resolver *)

\* rows of SELECT s3_path FROM kb_domains WHERE code IN (...), in table order
S3PathsOfCodes(codes) ==
    LET rows == SelectSeq(CodeOrder, LAMBDA c : c \in DOMAIN kb_domains /\ c \in codes)
    IN  [i \in 1..Len(rows) |-> kb_domains[rows[i]]]

\* the resolver failing open: a turn without a group code gets every prefix
GetAllowedS3Paths_FailOpen(group_code) ==
    IF group_code \in {None, ""} THEN S3PathsOfCodes(DomainCodes)
    ELSE IF group_code \notin DOMAIN group_codes THEN <<>>
    ELSE S3PathsOfCodes(Range(ParseKbDomains(group_codes[group_code])))

\* BedrockService._get_allowed_s3_paths
GetAllowedS3Paths(group_code) ==
    IF group_code \in {None, ""} THEN <<>>
    ELSE IF group_code \notin DOMAIN group_codes THEN <<>>
    ELSE LET kb_domains_list == ParseKbDomains(group_codes[group_code])
         IN  IF kb_domains_list = <<>> THEN <<>>
             ELSE S3PathsOfCodes(Range(kb_domains_list))

\* a call of the resolver (retrieve_and_generate_stream, step 1) with any value
\* its Optional[str] parameter admits; the resolver has no raise statement, so
\* nothing is raised
Resolve(group_code) ==
    /\ call = NoCall
    /\ call' = [op |-> "resolve", group_code |-> group_code,
                result |-> GetAllowedS3Paths(group_code), raised |-> "none"]
    /\ UNCHANGED <<kb_domains, group_codes, pending, chatVars>>

Next ==
    \/ \E code \in GroupCodes, list \in KbDomainLists : CreateGroupCodeValidate(code, list)
    \/ \E req \in pending : CreateGroupCodeInsert(req)
    \/ \E code \in GroupCodes, list \in KbDomainLists : UpdateGroupCodeValidate(code, list)
    \/ \E req \in pending : UpdateGroupCodeWrite(req)
    \/ \E code \in GroupCodes : DeleteGroupCode(code)
    \/ \E code \in DomainCodes, s3_path \in S3Paths : CreateKbDomain(code, s3_path)
    \/ \E code \in DomainCodes, s3_path \in S3Paths : UpdateKbDomain(code, s3_path)
    \/ \E code \in DomainCodes : DeleteKbDomainCheck(code)
    \/ \E req \in pending : DeleteKbDomainDelete(req)
    \/ \E group_code \in GroupCodeInputs : Resolve(group_code)

Spec == Init /\ [][Next]_vars

----------------------------------------------------------------------------
(* Classifier and retrieval filter *)

\* rows of SELECT code, s3_path FROM kb_domains ORDER BY code
KbDomainRows == SelectSeq(CodeOrder, LAMBDA c : c \in DOMAIN kb_domains)

\* the path the classifier matches: urlparse(s3_uri).path.lstrip('/')
UriPath(s3_uri) == LStripSlash(UrlParsePath(s3_uri))

\* BedrockService._extract_kb_domain_from_s3_uri: the first row, in code order,
\* whose s3_path the path starts with; None when there is none
ExtractKbDomainFromS3Uri(s3_uri) ==
    LET path == UriPath(s3_uri)
        matching == SelectSeq(KbDomainRows, LAMBDA c : StartsWith(path, kb_domains[c]))
    IN  IF matching = <<>> THEN None ELSE Head(matching)

\* the fallback allowing by default: a hit no domain is extracted from passes
PathMatch_DefaultAllow(s3_uri, allowed_s3_paths) == TRUE

\* the filter's fallback when no domain is extracted:
\* any(s3_uri.endswith(path) or path in s3_uri for path in allowed_s3_paths)
PathMatch(s3_uri, allowed_s3_paths) ==
    \E i \in DOMAIN allowed_s3_paths :
        EndsWith(s3_uri, allowed_s3_paths[i]) \/ Contains(s3_uri, allowed_s3_paths[i])

\* "kb_s3_path and kb_s3_path in allowed_s3_paths", kb_s3_path being the row of
\* kb_domain when it exists
DomainPathAllowed(kb_domain, allowed_s3_paths) ==
    /\ kb_domain \in DOMAIN kb_domains
    /\ kb_domains[kb_domain] # <<>>
    /\ kb_domains[kb_domain] \in Range(allowed_s3_paths)

\* the allowed list built from a copy of the hit without its content snippet
AllowResult_Redacted(acc, result) ==
    [acc EXCEPT !.allowed = Append(@, [result EXCEPT !.text = ""])]

\* allowed_results.append(result)
AllowResult(acc, result) == [acc EXCEPT !.allowed = Append(@, result)]

\* blocked_results.append(result); blocked_domains.add(kb_domain) for a
\* classified hit
BlockResult(acc, result, kb_domain) ==
    [acc EXCEPT !.blocked = Append(@, result),
                !.blocked_domains = IF kb_domain = None THEN @ ELSE @ \cup {kb_domain}]

\* one iteration of the filter's loop over retrieval_results
FilterOne(acc, result, allowed_s3_paths) ==
    IF ~result.has_uri \/ result.uri = <<>>
    THEN AllowResult(acc, result)
    ELSE LET kb_domain == ExtractKbDomainFromS3Uri(result.uri)
         IN  IF kb_domain # None /\ kb_domain # ""
             THEN IF DomainPathAllowed(kb_domain, allowed_s3_paths)
                  THEN AllowResult(acc, result)
                  ELSE BlockResult(acc, result, kb_domain)
             ELSE IF PathMatch(result.uri, allowed_s3_paths)
                  THEN AllowResult(acc, result)
                  ELSE BlockResult(acc, result, None)

RECURSIVE FilterLoop(_, _, _)
FilterLoop(acc, retrieval_results, allowed_s3_paths) ==
    IF retrieval_results = <<>> THEN acc
    ELSE FilterLoop(FilterOne(acc, Head(retrieval_results), allowed_s3_paths),
                    Tail(retrieval_results), allowed_s3_paths)

\* the violation flag taken from the blocked domains instead of the blocked hits
HasPermissionViolation_ByDomains(acc) == acc.blocked_domains # {}

\* "has_permission_violation": len(blocked_results) > 0
HasPermissionViolation(acc) == Len(acc.blocked) > 0

\* BedrockService._filter_retrieval_results
FilterRetrievalResults(retrieval_results, allowed_s3_paths) ==
    LET acc == FilterLoop([allowed |-> <<>>, blocked |-> <<>>, blocked_domains |-> {}],
                          retrieval_results, allowed_s3_paths)
    IN  [allowed |-> acc.allowed,
         blocked |-> acc.blocked,
         blocked_domains |-> acc.blocked_domains,
         has_permission_violation |-> HasPermissionViolation(acc)]

\* a classification of one storage URI; the classifier catches every exception
\* and has no raise statement, so nothing is raised
Classify(s3_uri) ==
    /\ call = NoCall
    /\ call' = [op |-> "classify", s3_uri |-> s3_uri,
                result |-> ExtractKbDomainFromS3Uri(s3_uri), raised |-> "none"]
    /\ UNCHANGED <<kb_domains, group_codes, pending, chatVars>>

\* retrieve_and_generate_stream, step 2: the hits of the retrieve response are
\* filtered against the allow-list resolved in step 1
Filter(retrieval_results, allowed_s3_paths) ==
    /\ call = NoCall
    /\ call' = [op |-> "filter", retrieval_results |-> retrieval_results,
                allowed_s3_paths |-> allowed_s3_paths,
                result |-> FilterRetrievalResults(retrieval_results, allowed_s3_paths)]
    /\ UNCHANGED <<kb_domains, group_codes, pending, chatVars>>

HitUris == {h.uri : h \in {x \in HitPool : x.has_uri}}

\* the registry under administration, and the classifier and the filter applied
\* to it
NextFilter ==
    \/ \E code \in DomainCodes, s3_path \in S3Paths : CreateKbDomain(code, s3_path)
    \/ \E code \in DomainCodes, s3_path \in S3Paths : UpdateKbDomain(code, s3_path)
    \/ \E s3_uri \in HitUris : Classify(s3_uri)
    \/ \E hits \in HitLists, allowed \in AllowLists : Filter(hits, allowed)

SpecFilter == Init /\ [][NextFilter]_vars

----------------------------------------------------------------------------
(* Classifier and filter: properties *)

\* the hit carries a URI and the classifier extracts a domain from it
Classified(hit) ==
    hit.has_uri /\ hit.uri # <<>> /\ ExtractKbDomainFromS3Uri(hit.uri) # None

Unclassified(hit) == ~Classified(hit)

\* the elements of seq at the indices in S, in the order of seq
Restrict(seq, S) ==
    LET idx == SelectSeq([i \in 1..Len(seq) |-> i], LAMBDA i : i \in S)
    IN  [j \in 1..Len(idx) |-> seq[idx[j]]]

\* C2: with an empty allow-list the filter allows no hit of a non-empty
\* retrieval, whatever the hit's URI is (classified, unclassified or missing).
FilterFailsClosed ==
    (call.op = "filter" /\ call.allowed_s3_paths = <<>> /\ call.retrieval_results # <<>>)
        => call.result.allowed = <<>>

\* C3: a classified hit is in allowed iff its domain's s3_path is a member of
\* the allow-list; otherwise it is not in allowed and its domain code is in
\* blocked_domains.
ClassifiedAllowedIffPathInAllowList ==
    call.op = "filter" =>
        LET hits == call.retrieval_results
            InList(h) == kb_domains[ExtractKbDomainFromS3Uri(h.uri)] \in Range(call.allowed_s3_paths)
        IN  /\ SelectSeq(call.result.allowed, Classified)
                  = SelectSeq(hits, LAMBDA h : Classified(h) /\ InList(h))
            /\ \A i \in DOMAIN hits :
                  (Classified(hits[i]) /\ ~InList(hits[i]))
                      => ExtractKbDomainFromS3Uri(hits[i].uri) \in call.result.blocked_domains

\* C3, the case the code does honour: the same statement for the hits whose
\* domain has a non-empty s3_path.
ClassifiedAllowedIffNonEmptyPathInAllowList ==
    call.op = "filter" =>
        LET hits == call.retrieval_results
            Path(h) == kb_domains[ExtractKbDomainFromS3Uri(h.uri)]
            InList(h) == Path(h) # <<>> /\ Path(h) \in Range(call.allowed_s3_paths)
        IN  /\ SelectSeq(call.result.allowed, Classified)
                  = SelectSeq(hits, LAMBDA h : Classified(h) /\ InList(h))
            /\ \A i \in DOMAIN hits :
                  (Classified(hits[i]) /\ ~InList(hits[i]))
                      => ExtractKbDomainFromS3Uri(hits[i].uri) \in call.result.blocked_domains

\* Scenario A: allow-list {hr/}, hits under hr/ and legal/ : the hr hit alone
\* is allowed, LEGAL is blocked, the violation flag is set.
ScenarioA ==
    ( /\ call.op = "filter"
      /\ "HR" \in DOMAIN kb_domains /\ "LEGAL" \in DOMAIN kb_domains
      /\ kb_domains["HR"] = PathHr /\ kb_domains["LEGAL"] = PathLegal
      /\ call.allowed_s3_paths = <<PathHr>>
      /\ call.retrieval_results
            = <<Hit(TRUE, UriHrPolicy, "policy"), Hit(TRUE, UriLegalContract, "contract")>> )
        => /\ call.result.allowed = <<Hit(TRUE, UriHrPolicy, "policy")>>
           /\ call.result.blocked_domains = {"LEGAL"}
           /\ call.result.has_permission_violation

\* C4 as claimed: the violation flag is true iff blocked_domains is non-empty.
ViolationIffBlockedDomains ==
    call.op = "filter" =>
        (call.result.has_permission_violation <=> call.result.blocked_domains # {})

\* C4 as amended: the violation flag is true iff some hit was withheld from
\* allowed, and it is true whenever blocked_domains is non-empty.
ViolationIffHitBlocked ==
    call.op = "filter" =>
        /\ call.result.has_permission_violation
              <=> Len(call.result.allowed) < Len(call.retrieval_results)
        /\ call.result.blocked_domains # {} => call.result.has_permission_violation

\* C4 witness: a hit that classifies to no domain was blocked, so the flag is
\* set while blocked_domains is empty.
ViolationWithoutBlockedDomain ==
    /\ call.op = "filter"
    /\ DOMAIN kb_domains = DomainCodes
    /\ call.allowed_s3_paths # <<>>
    /\ call.result.has_permission_violation
    /\ call.result.blocked_domains = {}
    /\ \E i \in DOMAIN call.result.blocked : Unclassified(call.result.blocked[i])

\* C5 as claimed: which unclassified hits are allowed does not depend on the
\* allow-list, and an unclassified hit is allowed only if its path starts with
\* no configured s3_path.
UnclassifiedAllowedWhateverAllowList ==
    call.op = "filter" =>
        /\ \A other \in AllowLists :
              SelectSeq(FilterRetrievalResults(call.retrieval_results, other).allowed, Unclassified)
                  = SelectSeq(call.result.allowed, Unclassified)
        /\ \A i \in DOMAIN call.result.allowed :
              LET h == call.result.allowed[i]
              IN  (Unclassified(h) /\ h.has_uri)
                      => \A c \in DOMAIN kb_domains : ~StartsWith(UriPath(h.uri), kb_domains[c])

\* C5 as amended: an unclassified hit is allowed iff it carries no URI or some
\* entry of the allow-list occurs in its URI.
UnclassifiedAllowedIffAllowListOccurs ==
    call.op = "filter" =>
        SelectSeq(call.result.allowed, Unclassified)
            = SelectSeq(call.retrieval_results,
                        LAMBDA h : /\ Unclassified(h)
                                   /\ \/ ~h.has_uri
                                      \/ \E p \in Range(call.allowed_s3_paths) : Contains(h.uri, p))

\* C5 witness: the hit under hr/legal/ classifies to no domain (only legal/ is
\* configured) and is allowed because legal/ of the allow-list occurs in its URI.
UnclassifiedAllowedByAllowList ==
    /\ call.op = "filter"
    /\ "LEGAL" \in DOMAIN kb_domains
    /\ kb_domains["LEGAL"] = PathLegal
    /\ call.allowed_s3_paths = <<PathLegal>>
    /\ \E i \in DOMAIN call.result.allowed :
          /\ call.result.allowed[i].uri = UriHrLegal
          /\ Unclassified(call.result.allowed[i])
    /\ FilterRetrievalResults(call.retrieval_results, <<>>).allowed # call.result.allowed

\* C6: every hit is in exactly one of allowed and blocked, and allowed holds
\* the hits as retrieved, unchanged and in retrieval order.
NoPartialRedaction ==
    call.op = "filter" =>
        \E S \in SUBSET (DOMAIN call.retrieval_results) :
            /\ call.result.allowed = Restrict(call.retrieval_results, S)
            /\ call.result.blocked
                  = Restrict(call.retrieval_results, (DOMAIN call.retrieval_results) \ S)

\* C6 witness: of two different hits the first was blocked and the second, a
\* classified hit, allowed.
SecondHitAloneAllowed ==
    /\ call.op = "filter"
    /\ DOMAIN kb_domains = DomainCodes
    /\ Len(call.retrieval_results) = 2
    /\ call.retrieval_results[1] # call.retrieval_results[2]
    /\ Classified(call.retrieval_results[2])
    /\ call.result.allowed = <<call.retrieval_results[2]>>
    /\ call.result.blocked = <<call.retrieval_results[1]>>

\* the domains whose s3_path the path of s3_uri starts with
MatchingDomains(s3_uri) ==
    {c \in DOMAIN kb_domains : StartsWith(UriPath(s3_uri), kb_domains[c])}

\* C7: the classifier returns the domain with the longest matching s3_path,
\* and None when no s3_path matches.
ClassifiesByLongestPrefix ==
    call.op = "classify" =>
        IF MatchingDomains(call.s3_uri) = {}
        THEN call.result = None
        ELSE /\ call.result \in MatchingDomains(call.s3_uri)
             /\ \A c \in MatchingDomains(call.s3_uri) :
                   Len(kb_domains[c]) <= Len(kb_domains[call.result])

\* C8: when two domains have the same s3_path and it matches the path, the
\* classifier raises ConfigurationInconsistency.
DuplicatePrefixRaises ==
    (call.op = "classify"
       /\ \E c, d \in MatchingDomains(call.s3_uri) : c # d /\ kb_domains[c] = kb_domains[d])
        => call.raised = "ConfigurationInconsistency"

----------------------------------------------------------------------------
(* Access resolver: properties *)

\* the group code of the last resolver call is absent, unknown to group_codes,
\* or names a group whose domain list is empty
NoGrantCase(group_code) ==
    \/ group_code \in {None, ""}
    \/ group_code \notin DOMAIN group_codes
    \/ ParseKbDomains(group_codes[group_code]) = <<>>

\* C1: the resolver returns the empty allow-list, and raises nothing, whenever
\* the group code is absent, is unknown to the group table, or names a group
\* whose domain list is empty.
ResolverFailsClosed ==
    (call.op = "resolve" /\ NoGrantCase(call.group_code))
        => (call.result = <<>> /\ call.raised = "none")

\* C1 witness: a turn without a group code resolved to nothing while a stored
\* group does resolve to a non-empty allow-list.
ResolverFailsClosedWitness ==
    /\ call.op = "resolve"
    /\ call.group_code = None
    /\ call.result = <<>>
    /\ \E g \in DOMAIN group_codes : GetAllowedS3Paths(g) # <<>>

\* C9: for a known group the resolver returns exactly the prefixes of the
\* group's domain codes, and a listed code that is missing from kb_domains is
\* raised as ConfigurationInconsistency instead of being left out.
ResolverSurfacesMissingDomain ==
    (call.op = "resolve" /\ call.group_code \in DOMAIN group_codes)
        => LET listed == Range(ParseKbDomains(group_codes[call.group_code]))
           IN  /\ Range(call.result) = {kb_domains[c] : c \in listed \cap DOMAIN kb_domains}
               /\ (listed \ DOMAIN kb_domains # {})
                     => call.raised = "ConfigurationInconsistency"

----------------------------------------------------------------------------
(* Conversation store (app/services/db_service.py).  Each function runs its  *)
(* statements in one database transaction, which commits whole or, when a   *)
(* statement raises, not at all: the operators below give the committed     *)
(* store and the value returned.                                            *)

ConvIds == {"c1", "c2"}
Employees == {"e1", "e2"}

\* the store as the functions of db_service see it
Store ==
    [conversations |-> conversations, messages |-> messages,
     message_seq |-> message_seq, clock |-> clock]

SetStore(st) ==
    /\ conversations' = st.conversations
    /\ messages' = st.messages
    /\ message_seq' = st.message_seq
    /\ clock' = st.clock

\* get_utc_now(): a time later than every time stored so far
GetUtcNow(st) == st.clock + 1

\* SELECT ... FROM messages WHERE conversation_id = $1
MessagesOf(rows, conversation_id) == {m \in rows : m.conversation_id = conversation_id}

\* title_value = title or "새 대화", for the title=None of chat()
DefaultTitle == "New"

\* the INSERT of create_conversation left out
CreateConversation_Skipped(st, conversation_id, employee_id) == st

\* db_service.create_conversation: INSERT INTO conversations with message_count 0
CreateConversation(st, conversation_id, employee_id) ==
    LET now == GetUtcNow(st)
    IN  [st EXCEPT !.conversations =
                      Put(@, conversation_id,
                          [employee_id |-> employee_id, title |-> DefaultTitle,
                           message_count |-> 0, updated_at |-> now]),
                   !.clock = now]

\* add_message inserting nothing and returning None
AddMessage_NotStored(st, conversation_id, role) == [store |-> st, result |-> 0]

\* db_service.add_message: None (here 0, no message_id) when the conversation
\* does not exist; else the message is inserted and the conversation's
\* message_count and updated_at are updated, and the new message_id is returned
AddMessage(st, conversation_id, role) ==
    IF conversation_id \notin DOMAIN st.conversations
    THEN [store |-> st, result |-> 0]
    ELSE LET now == GetUtcNow(st)
             message_id == st.message_seq + 1
         IN  [store |->
                 [conversations |->
                      [st.conversations EXCEPT
                           ![conversation_id].message_count = @ + 1,
                           ![conversation_id].updated_at = now],
                  messages |->
                      st.messages \cup
                          {[message_id |-> message_id,
                            conversation_id |-> conversation_id,
                            role |-> role, created_at |-> now]},
                  message_seq |-> message_id,
                  clock |-> now],
              result |-> message_id]

\* GREATEST(message_count - 1, 0)
Greatest(a, b) == IF a >= b THEN a ELSE b

\* the update of remove_last_message that leaves message_count as it is
DecrementCount_Skipped(row, now) == [row EXCEPT !.updated_at = now]

\* UPDATE conversations SET message_count = GREATEST(message_count - 1, 0),
\* updated_at = $1
DecrementCount(row, now) ==
    [row EXCEPT !.message_count = Greatest(@ - 1, 0), !.updated_at = now]

\* the compensation deleting the conversation's oldest message of the role
LastMessage_Oldest(candidates) ==
    CHOOSE m \in candidates : \A o \in candidates : m.created_at <= o.created_at

\* SELECT message_id FROM messages WHERE ... ORDER BY created_at DESC LIMIT 1
LastMessage(candidates) ==
    CHOOSE m \in candidates : \A o \in candidates : o.created_at <= m.created_at

\* db_service.remove_last_message: False when the conversation does not exist
\* or has no message (of the role, when a role is given); else the message of
\* that role with the latest created_at is deleted, message_count decremented
RemoveLastMessage(st, conversation_id, role) ==
    IF conversation_id \notin DOMAIN st.conversations
    THEN [store |-> st, result |-> FALSE]
    ELSE LET candidates ==
                 {m \in MessagesOf(st.messages, conversation_id) :
                      role \in {None, ""} \/ m.role = role}
         IN  IF candidates = {}
             THEN [store |-> st, result |-> FALSE]
             ELSE LET now == GetUtcNow(st)
                  IN  [store |->
                          [st EXCEPT
                               !.messages = @ \ {LastMessage(candidates)},
                               !.conversations[conversation_id] = DecrementCount(@, now),
                               !.clock = now],
                       result |-> TRUE]

\* db_service.delete_conversation: False when the conversation does not exist;
\* else its messages and its row are deleted
DeleteConversationRows_NoCascade(st, conversation_id) ==
    IF conversation_id \notin DOMAIN st.conversations
    THEN [store |-> st, result |-> FALSE]
    ELSE [store |-> [st EXCEPT !.conversations = Remove(@, conversation_id)],
          result |-> TRUE]

DeleteConversationRows(st, conversation_id) ==
    IF conversation_id \notin DOMAIN st.conversations
    THEN [store |-> st, result |-> FALSE]
    ELSE [store |->
             [st EXCEPT !.messages = @ \ MessagesOf(st.messages, conversation_id),
                        !.conversations = Remove(@, conversation_id)],
          result |-> TRUE]

\* writes of the store in one behaviour, at most
MaxWrites == 5

\* roles a message is stored or looked up under
Roles == {"user", "assistant"}

\* a call of db_service.create_conversation, as chat() makes it for an id that
\* get_conversation found no conversation under
CallCreateConversation(conversation_id, employee_id) ==
    /\ clock < MaxWrites
    /\ conversation_id \notin DOMAIN conversations
    /\ SetStore(CreateConversation(Store, conversation_id, employee_id))
    /\ call' = [op |-> "create_conversation", conversation_id |-> conversation_id,
                role |-> None, before |-> Store, result |-> TRUE]
    /\ UNCHANGED <<kb_domains, group_codes, pending, turns>>

\* a call of db_service.add_message
CallAddMessage(conversation_id, role) ==
    /\ clock < MaxWrites
    /\ LET r == AddMessage(Store, conversation_id, role)
       IN  /\ SetStore(r.store)
           /\ call' = [op |-> "add_message", conversation_id |-> conversation_id,
                       role |-> role, before |-> Store, result |-> r.result]
    /\ UNCHANGED <<kb_domains, group_codes, pending, turns>>

\* a call of db_service.remove_last_message
CallRemoveLastMessage(conversation_id, role) ==
    /\ clock < MaxWrites
    /\ LET r == RemoveLastMessage(Store, conversation_id, role)
       IN  /\ SetStore(r.store)
           /\ call' = [op |-> "remove_last_message", conversation_id |-> conversation_id,
                       role |-> role, before |-> Store, result |-> r.result]
    /\ UNCHANGED <<kb_domains, group_codes, pending, turns>>

\* user_info.employee_id of get_user_info_from_request: the X-Employee-Id
\* header, None without the header
Callers == Employees \cup {None}

\* "if employee_id and conversation.employee_id != employee_id": the 403 of the
\* history handlers
NotOwner(employee_id, conversation) ==
    employee_id # None /\ conversation.employee_id # employee_id

\* db_service.update_conversation_title: UPDATE conversations SET title,
\* updated_at
UpdateTitleRow(st, conversation_id, title) ==
    LET now == GetUtcNow(st)
    IN  [st EXCEPT !.conversations[conversation_id] =
                       [@ EXCEPT !.title = title, !.updated_at = now],
                   !.clock = now]

\* GET /history/{conversation_id}: 404 when the conversation does not exist,
\* 403 by NotOwner; else the conversation and its messages are returned
GetConversationDetail(employee_id, conversation_id) ==
    /\ conversation_id \in DOMAIN conversations
    /\ ~NotOwner(employee_id, conversations[conversation_id])
    /\ call' = [op |-> "get_conversation_detail", employee_id |-> employee_id,
                conversation_id |-> conversation_id, before |-> Store,
                result |-> [conversation |-> conversations[conversation_id],
                            messages |-> MessagesOf(messages, conversation_id)]]
    /\ UNCHANGED <<kb_domains, group_codes, pending, chatVars>>

\* titles of the title requests
Titles == {"title"}

\* PUT /history/{conversation_id}/title: 404 when the conversation does not
\* exist, 403 by NotOwner; else db_service.update_conversation_title
UpdateConversationTitle(employee_id, conversation_id, title) ==
    /\ clock < MaxWrites
    /\ conversation_id \in DOMAIN conversations
    /\ ~NotOwner(employee_id, conversations[conversation_id])
    /\ SetStore(UpdateTitleRow(Store, conversation_id, title))
    /\ call' = [op |-> "update_conversation_title", employee_id |-> employee_id,
                conversation_id |-> conversation_id, before |-> Store,
                result |-> title]
    /\ UNCHANGED <<kb_domains, group_codes, pending, turns>>

\* DELETE /history/{conversation_id}: 404 when the conversation does not
\* exist, 403 when the X-Employee-Id header names another employee than its
\* owner (no check without the header); else db_service.delete_conversation
\* deletes the conversation and its messages
DeleteConversation(employee_id, conversation_id) ==
    /\ conversation_id \in DOMAIN conversations
    /\ ~NotOwner(employee_id, conversations[conversation_id])
    /\ LET r == DeleteConversationRows(Store, conversation_id)
       IN  /\ SetStore(r.store)
           /\ call' = [op |-> "delete_conversation", employee_id |-> employee_id,
                       conversation_id |-> conversation_id,
                       role |-> None, before |-> Store, result |-> r.result]
    /\ UNCHANGED <<kb_domains, group_codes, pending, turns>>

\* every sequence of calls of the store's functions
NextStore ==
    \/ \E conversation_id \in ConvIds, employee_id \in Employees :
           CallCreateConversation(conversation_id, employee_id)
    \/ \E conversation_id \in ConvIds, role \in Roles : CallAddMessage(conversation_id, role)
    \/ \E conversation_id \in ConvIds, role \in Roles \cup {None} :
           CallRemoveLastMessage(conversation_id, role)
    \/ \E employee_id \in Callers, conversation_id \in ConvIds :
           GetConversationDetail(employee_id, conversation_id)
    \/ \E employee_id \in Callers, conversation_id \in ConvIds, title \in Titles :
           UpdateConversationTitle(employee_id, conversation_id, title)
    \/ \E employee_id \in Callers, conversation_id \in ConvIds :
           DeleteConversation(employee_id, conversation_id)

SpecStore == Init /\ [][NextStore]_vars

----------------------------------------------------------------------------
(* POST /chat (app/routers/chat.py) and the event stream of one turn *)

\* text deltas the generation stream yields in one turn, at most
MaxDeltas == 2

\* chunk_size of generate_stream
ChunkSize == 10
\* len() of the fully-blocked text before the permission message
BlockedTextLen == 39
\* len() of the text sent when retrieval found nothing
NothingTextLen == 100
\* len() of the two lines opening the permission message, and of its last line
PermissionHeadLen == 72
PermissionTailLen == 42
\* len() of the group line of the permission message without the group code
GroupInfoLen == 29
\* len() of one text delta of the generation stream
DeltaLen == 12
\* len() of the name column of a kb_domains row, and of a stored group code
DomainNameLen == 2
GroupCodeLen == 5

\* conversation ids of the requests, and uuid4 values
ChatConvIds == {"c1"}

\* "if len(request.message) > 2000", and max_length=2000 of the request model
MaxMessageLen == 2000

\* len() of the messages of the requests: an empty one, a short one, and one
\* longer than the bound
MessageLens == {0, 5, MaxMessageLen + 1}

\* request bodies: the fields the handler branches on.  message is
\* len(request.message) (a message longer than the bound is refused by the
\* request model or by the handler's own test), profile_ok is corp_id, name
\* and department all given
ChatRequests ==
    [ employee_id : {""} \cup Employees,
      group_code : {"", "G-OPS"},
      conversation_id : {None, "not-a-uuid"} \cup ChatConvIds,
      message : MessageLens,
      profile_ok : BOOLEAN ]

\* the requests with a message of one character at least
NonEmptyRequests == {req \in ChatRequests : req.message > 0}

\* the requests before t have arrived
ArrivedBefore(t) ==
    \A i, j \in DOMAIN TurnOrder :
        (i < j /\ TurnOrder[j] = t) => turns[TurnOrder[i]].pc # "idle"

\* retrieve responses of the knowledge base
RetrievalResponses ==
    { <<>>,
      <<Hit(TRUE, UriLegalContract, "contract")>>,
      <<Hit(TRUE, UriMisc, "misc")>>,
      <<Hit(TRUE, UriHrPolicy, "policy")>>,
      <<Hit(FALSE, <<>>, "no-location")>>,
      <<Hit(TRUE, UriHrPolicy, "policy"), Hit(TRUE, UriLegalContract, "contract")>> }

Event(type) == [type |-> type, size |-> 0]
\* the error event: "error" is the kind, "message" its text
ErrorEvent(kind) == [type |-> "error", size |-> 0, kind |-> kind]
\* the metadata event: size is len(sse_sources), one source per citation
MetadataEvent(sources) == [type |-> "metadata", size |-> sources]
Token(size) == [type |-> "token", size |-> size]

\* the whole text sent as one token event
Chunks_Single(len) == IF len = 0 THEN <<>> ELSE <<Token(len)>>

\* for i in range(0, len(text), chunk_size): one token event per slice
\* text[i:i + chunk_size]
RECURSIVE Chunks(_)
Chunks(len) ==
    IF len <= 0 THEN <<>>
    ELSE IF len <= ChunkSize THEN <<Token(len)>>
    ELSE <<Token(ChunkSize)>> \o Chunks(len - ChunkSize)

\* len("\n".join([f"- {name}" for name in names])) for n names
JoinedNamesLen(n) == IF n = 0 THEN 0 ELSE n * (2 + DomainNameLen) + (n - 1)

\* len() of BedrockService._generate_permission_message(blocked_domains, group_code)
PermissionMessageLen(blocked_domains, group_code) ==
    IF blocked_domains = {} THEN 0
    ELSE LET blocked_names == blocked_domains \cap DOMAIN kb_domains
             allowed_domains ==
                 IF group_code \in DOMAIN group_codes
                 THEN Range(ParseKbDomains(group_codes[group_code]))
                 ELSE {}
             group_info ==
                 IF allowed_domains = {} THEN 0
                 ELSE GroupInfoLen + GroupCodeLen
                      + JoinedNamesLen(Cardinality(allowed_domains \cap DOMAIN kb_domains))
         IN  PermissionHeadLen + JoinedNamesLen(Cardinality(blocked_names))
             + group_info + PermissionTailLen

\* chat(), before the stream: the error of the HTTPException raised, or None
RequestStatus(req) ==
    IF req.message > MaxMessageLen THEN "MESSAGETOOLONG"
    ELSE IF req.employee_id = "" THEN "INVALID_REQUEST"
    ELSE IF req.group_code = "" THEN "INVALID_REQUEST"
    ELSE IF req.conversation_id = "not-a-uuid" THEN "INVALID_REQUEST"
    ELSE IF /\ req.conversation_id \in DOMAIN conversations
            /\ conversations[req.conversation_id].employee_id # req.employee_id
         THEN "NOT_OWNER"
    ELSE IF req.conversation_id \notin DOMAIN conversations /\ ~req.profile_ok
         THEN "INVALID_REQUEST"
    ELSE None

\* the ownership check left out of chat()
ChatRequestStatus_NoOwnerCheck(req) ==
    IF RequestStatus(req) = "NOT_OWNER" THEN None ELSE RequestStatus(req)

ChatRequestStatus(req) == RequestStatus(req)

\* chat(): the request is validated; the conversation is looked up and, when
\* it does not exist, created (under the id of the request, or under a new
\* uuid4 when the request has none); the StreamingResponse is returned
ChatRequest(t, req, uuid4) ==
    /\ turns[t].pc = "idle"
    /\ ArrivedBefore(t)
    /\ LET status == ChatRequestStatus(req)
           conversation_id ==
               IF req.conversation_id = None THEN uuid4 ELSE req.conversation_id
           existing_conversation ==
               req.conversation_id # None /\ conversation_id \in DOMAIN conversations
       IN  IF status # None
           THEN /\ turns' = [turns EXCEPT ![t] =
                               [@ EXCEPT !.pc = "rejected", !.status = status,
                                         !.message = req.message,
                                         !.employee_id = req.employee_id,
                                         !.group_code = req.group_code,
                                         !.conversation_id = req.conversation_id]]
                /\ UNCHANGED <<conversations, messages, message_seq, clock>>
           ELSE /\ req.conversation_id = None => uuid4 \notin DOMAIN conversations
                /\ turns' = [turns EXCEPT ![t] =
                               [@ EXCEPT !.pc = "open",
                                         !.message = req.message,
                                         !.employee_id = req.employee_id,
                                         !.group_code = req.group_code,
                                         !.conversation_id = conversation_id,
                                         !.is_new_conversation = ~existing_conversation]]
                /\ IF existing_conversation
                   THEN UNCHANGED <<conversations, messages, message_seq, clock>>
                   ELSE SetStore(CreateConversation(Store, conversation_id, req.employee_id))
    /\ UNCHANGED <<kb_domains, group_codes, pending, call>>

\* generate_stream: the start event
EmitStart(t) ==
    /\ turns[t].pc = "open"
    /\ turns' = [turns EXCEPT ![t] =
                    [@ EXCEPT !.pc = "started", !.events = Append(@, Event("start"))]]
    /\ UNCHANGED <<kb_domains, group_codes, pending, call,
                   conversations, messages, message_seq, clock>>

\* generate_stream: add_message(role="user"); an exception of the database
\* call (db_ok false) is caught by "except Exception"
RecordUser(t, db_ok) ==
    /\ turns[t].pc = "started"
    /\ LET r == AddMessage(Store, turns[t].conversation_id, "user")
           pre_count ==
               IF turns[t].conversation_id \in DOMAIN conversations
               THEN conversations[turns[t].conversation_id].message_count
               ELSE 0
       IN  IF db_ok
           THEN /\ SetStore(r.store)
                /\ turns' = [turns EXCEPT ![t] =
                               [@ EXCEPT !.pc = "retrieving",
                                         !.user_message_saved = TRUE,
                                         !.user_message = r.result,
                                         !.pre_count = pre_count]]
           ELSE /\ turns' = [turns EXCEPT ![t] =
                               [@ EXCEPT !.pc = "except", !.pre_count = pre_count]]
                /\ UNCHANGED <<conversations, messages, message_seq, clock>>
    /\ UNCHANGED <<kb_domains, group_codes, pending, call>>

\* the events of one text event of the service: one token event per chunk
EmitText(turn, len) ==
    [turn EXCEPT !.events = @ \o Chunks(len), !.full_text = @ + len]

\* the two templated answers given as one
Branch_Conflated(retrieval_results, filtered_results) ==
    IF filtered_results = <<>> THEN "nothing" ELSE "generate"

\* retrieve_and_generate_stream, "if not filtered_results: if retrieval_results:
\* ... else: ...": the fully-blocked text, the nothing-found text, or generation
Branch(retrieval_results, filtered_results) ==
    IF filtered_results = <<>>
    THEN IF retrieval_results # <<>> THEN "blocked" ELSE "nothing"
    ELSE "generate"

\* len(citations): one citation per allowed hit with "s3Location" in its
\* location
\* the prompt context: the text of every hit of the list
ContextTexts(filtered_results) ==
    [i \in DOMAIN filtered_results |-> filtered_results[i].text]

\* the citations, by the s3_uri each one carries: one per hit of the list
\* that has an s3Location
CitationUris(filtered_results) ==
    LET located == SelectSeq(filtered_results, LAMBDA result : result.has_uri)
    IN  [i \in DOMAIN located |-> located[i].uri]

Citations(filtered_results) ==
    Len(SelectSeq(filtered_results, LAMBDA result : result.has_uri))

\* the error kinds of the service's error events and of "except Exception"
BedrockErrorKind == "BedrockError"
InvokeModelErrorKind == "InvokeModelError"
InternalErrorKind == "INTERNAL_ERROR"

\* retrieve_and_generate_stream once the hits are filtered (filter_result):
\* the turn's events and position for each branch
AnswerFiltered(t, response, filter_result, retrieve_ok, db_ok) ==
    LET turn == [turns[t] EXCEPT !.retrievals = @ + 1]
        branch == Branch(response, filter_result.allowed)
        retrieved ==
            [turn EXCEPT !.retrieval_results = Len(response),
                         !.filtered_results = Len(filter_result.allowed),
                         !.blocked_domains = filter_result.blocked_domains,
                         !.citations = Citations(filter_result.allowed),
                         !.allowed = filter_result.allowed,
                         !.blocked = filter_result.blocked,
                         !.context_texts = IF branch = "generate"
                                           THEN ContextTexts(filter_result.allowed)
                                           ELSE <<>>,
                         !.citation_uris = IF branch = "generate"
                                           THEN CitationUris(filter_result.allowed)
                                           ELSE <<>>,
                         !.branch = branch]
    IN  IF ~retrieve_ok
        THEN /\ db_ok /\ response = <<>>
             /\ turns' = [turns EXCEPT ![t] =
                    [turn EXCEPT !.pc = "bedrock_error", !.error = BedrockErrorKind,
                                 !.service_error = BedrockErrorKind]]
        ELSE IF ~db_ok
        THEN /\ branch = "blocked" => filter_result.blocked_domains # {}
             /\ branch # "nothing"
             /\ turns' = [turns EXCEPT ![t] =
                    [retrieved EXCEPT !.pc = "bedrock_error", !.error = BedrockErrorKind,
                                      !.service_error = BedrockErrorKind]]
        ELSE IF branch = "blocked"
        THEN turns' = [turns EXCEPT ![t] =
                 [EmitText(retrieved,
                           BlockedTextLen
                           + PermissionMessageLen(filter_result.blocked_domains,
                                                  turn.group_code))
                     EXCEPT !.pc = "finishing"]]
        ELSE IF branch = "nothing"
        THEN turns' = [turns EXCEPT ![t] =
                 [EmitText(retrieved, NothingTextLen) EXCEPT !.pc = "finishing"]]
        ELSE turns' = [turns EXCEPT ![t] = [retrieved EXCEPT !.pc = "generating"]]

\* retrieve_and_generate_stream up to the generation call: the allow-list is
\* resolved, the knowledge base is queried once (response: its hits; the call
\* raises when retrieve_ok is false) and the hits are filtered.  No allowed
\* hit: the fully-blocked text (hits were retrieved) or the nothing-found text
\* is the only event of the service.  db_ok false: a registry query of
\* _generate_permission_message or _build_filtered_prompt raises.  Whatever is
\* raised becomes the error event of the service.
RetrieveAndFilter(t, response, retrieve_ok, db_ok) ==
    /\ turns[t].pc = "retrieving"
    /\ AnswerFiltered(t, response,
                      FilterRetrievalResults(response, GetAllowedS3Paths(turns[t].group_code)),
                      retrieve_ok, db_ok)
    /\ UNCHANGED <<kb_domains, group_codes, pending, call,
                   conversations, messages, message_seq, clock>>

\* _invoke_model_stream yields a text delta, which generate_stream sends in
\* chunks
GenerateDelta(t) ==
    /\ turns[t].pc = "generating"
    /\ turns[t].deltas < MaxDeltas
    /\ turns' = [turns EXCEPT ![t] =
                    [EmitText(turns[t], DeltaLen) EXCEPT !.invoked = TRUE, !.deltas = @ + 1]]
    /\ UNCHANGED <<kb_domains, group_codes, pending, call,
                   conversations, messages, message_seq, clock>>

\* the generation call raises, before or between deltas: _invoke_model_stream
\* yields its error chunk, which the service passes on
GenerateError(t) ==
    /\ turns[t].pc = "generating"
    /\ turns' = [turns EXCEPT ![t] =
                    [@ EXCEPT !.invoked = TRUE, !.pc = "bedrock_error",
                              !.error = InvokeModelErrorKind,
                              !.service_error = InvokeModelErrorKind]]
    /\ UNCHANGED <<kb_domains, group_codes, pending, call,
                   conversations, messages, message_seq, clock>>

\* the generation stream ends; the service yields the citations and the
\* filtered hits when some text was generated
\* total tokens the model may report with its stop chunk (0: no usage)
Usages == {0, 7}

\* what retrieve_and_generate_stream passes on of a {"usage": ...} chunk of
\* _invoke_model_stream: its loop yields the chunks that hold "error" or
\* "text" and no other, so no usage reaches generate_stream and its
\* total_tokens keeps the value it was initialised with
ForwardedUsage(total_tokens, usage) == total_tokens

GenerateEnd(t, usage) ==
    /\ turns[t].pc = "generating"
    /\ turns' = [turns EXCEPT ![t] =
                    [@ EXCEPT !.invoked = TRUE, !.pc = "finishing",
                              !.usage = usage,
                              !.total_tokens = ForwardedUsage(@, usage)]]
    /\ UNCHANGED <<kb_domains, group_codes, pending, call,
                   conversations, messages, message_seq, clock>>

\* generate_stream, "if citations or retrieval_results": the service's last
\* event carried the filtered hits of a turn that generated text
HasMetadata(turn) == turn.branch = "generate" /\ turn.full_text > 0

\* the metadata event sent after the done event
\* metadata_sources of generate_stream: one source per citation the service
\* sent with its last event, in the same order
MetadataSources_AllRetrieved(turn) ==
    IF HasMetadata(turn) THEN CitationUris(turn.allowed \o turn.blocked) ELSE <<>>

MetadataSources(turn) == IF HasMetadata(turn) THEN turn.citation_uris ELSE <<>>

FinishEvents_DoneFirst(turn) ==
    <<Event("done")>>
        \o (IF HasMetadata(turn) THEN <<MetadataEvent(turn.citations)>> ELSE <<>>)

\* the metadata event, when there are citations or retrieval results, then
\* the done event
FinishEvents(turn) ==
    (IF HasMetadata(turn) THEN <<MetadataEvent(turn.citations)>> ELSE <<>>)
        \o <<Event("done")>>

\* generate_stream after the service's last event
Finish(t) ==
    /\ turns[t].pc = "finishing"
    /\ turns' = [turns EXCEPT ![t] =
                    [@ EXCEPT !.pc = "persisting",
                              !.metadata_sources = MetadataSources(turns[t]),
                              !.events = @ \o FinishEvents(turns[t])]]
    /\ UNCHANGED <<kb_domains, group_codes, pending, call,
                   conversations, messages, message_seq, clock>>

\* generate_stream after done: add_message(role="assistant") when full_text is
\* not empty; an exception of the database call is caught by "except Exception"
PersistAssistant(t, db_ok) ==
    /\ turns[t].pc = "persisting"
    /\ IF turns[t].full_text = 0
       THEN /\ db_ok
            /\ turns' = [turns EXCEPT ![t] = [@ EXCEPT !.pc = "closed"]]
            /\ UNCHANGED <<conversations, messages, message_seq, clock>>
       ELSE IF db_ok
       THEN LET r == AddMessage(Store, turns[t].conversation_id, "assistant")
            IN  /\ SetStore(r.store)
                /\ turns' = [turns EXCEPT ![t] =
                               [@ EXCEPT !.pc = "closed", !.assistant_message = r.result,
                                         !.stored_sources =
                                             IF r.result # 0
                                             THEN turns[t].metadata_sources ELSE <<>>]]
       ELSE /\ turns' = [turns EXCEPT ![t] = [@ EXCEPT !.pc = "except"]]
            /\ UNCHANGED <<conversations, messages, message_seq, clock>>
    /\ UNCHANGED <<kb_domains, group_codes, pending, call>>

\* remove_last_message(conversation_id, role="user") called by turn t: the
\* turn's position and error kind after the call returned
RolledBack(t, kind) ==
    /\ SetStore(RemoveLastMessage(Store, turns[t].conversation_id, "user").store)
    /\ turns' = [turns EXCEPT ![t] =
                    [@ EXCEPT !.pc = "error_event", !.error = kind,
                              !.rollbacks = @ + 1]]

\* generate_stream on an error event of the service, up to the yield: the
\* user message is rolled back "if user_message_saved"; an exception of
\* remove_last_message (db_ok false) is caught by "except Exception"
BedrockError(t, db_ok) ==
    /\ turns[t].pc = "bedrock_error"
    /\ IF ~turns[t].user_message_saved
       THEN /\ db_ok
            /\ turns' = [turns EXCEPT ![t] = [@ EXCEPT !.pc = "error_event"]]
            /\ UNCHANGED <<conversations, messages, message_seq, clock>>
       ELSE IF db_ok
       THEN RolledBack(t, turns[t].error)
       ELSE /\ turns' = [turns EXCEPT ![t] = [@ EXCEPT !.pc = "except"]]
            /\ UNCHANGED <<conversations, messages, message_seq, clock>>
    /\ UNCHANGED <<kb_domains, group_codes, pending, call>>

\* generate_stream, "except Exception", up to the yield: the user message is
\* rolled back "if user_message_saved".  An exception of remove_last_message
\* here leaves the generator, and the stream ends with no further event (pc
\* "aborted")
ExceptHandler(t, db_ok) ==
    /\ turns[t].pc = "except"
    /\ IF ~turns[t].user_message_saved
       THEN /\ db_ok
            /\ turns' = [turns EXCEPT ![t] =
                           [@ EXCEPT !.pc = "error_event", !.error = InternalErrorKind]]
            /\ UNCHANGED <<conversations, messages, message_seq, clock>>
       ELSE IF db_ok
       THEN RolledBack(t, InternalErrorKind)
       ELSE /\ turns' = [turns EXCEPT ![t] = [@ EXCEPT !.pc = "aborted"]]
            /\ UNCHANGED <<conversations, messages, message_seq, clock>>
    /\ UNCHANGED <<kb_domains, group_codes, pending, call>>

\* generate_stream: the error event of either error path is yielded, and the
\* generator ends
SendError(t) ==
    /\ turns[t].pc = "error_event"
    /\ turns' = [turns EXCEPT ![t] =
                    [@ EXCEPT !.pc = "closed",
                              !.events = Append(@, ErrorEvent(turns[t].error))]]
    /\ UNCHANGED <<kb_domains, group_codes, pending, call,
                   conversations, messages, message_seq, clock>>

\* positions of a generator that has started and not ended: it is suspended
\* at a yield or an await
Streaming ==
    {"started", "retrieving", "generating", "finishing", "persisting",
     "bedrock_error", "except", "error_event"}

\* the client disconnects: the response task is cancelled and the generator
\* is closed where it is suspended, by CancelledError or GeneratorExit, which
\* "except Exception" does not catch.  No statement of the generator runs
\* after it; its locals, but for the ones the store is compared with, are gone
Disconnect(t) ==
    /\ turns[t].pc \in Streaming
    /\ turns' = [turns EXCEPT ![t] =
                    [IdleTurn EXCEPT
                        !.pc = "cancelled",
                        !.message = turns[t].message,
                        !.employee_id = turns[t].employee_id,
                        !.group_code = turns[t].group_code,
                        !.conversation_id = turns[t].conversation_id,
                        !.is_new_conversation = turns[t].is_new_conversation,
                        !.user_message_saved = turns[t].user_message_saved,
                        !.user_message = turns[t].user_message,
                        !.pre_count = turns[t].pre_count,
                        !.assistant_message = turns[t].assistant_message,
                        !.rollbacks = turns[t].rollbacks,
                        !.retrievals = turns[t].retrievals,
                        !.service_error = turns[t].service_error,
                        !.events = turns[t].events]]
    /\ UNCHANGED <<kb_domains, group_codes, pending, call,
                   conversations, messages, message_seq, clock>>

\* the registry of the turns: two domains and a group allowed the first
InitChat ==
    /\ kb_domains = Put(Put(EmptyTable, "HR", PathHr), "LEGAL", PathLegal)
    /\ group_codes = Put(EmptyTable, "G-OPS", JoinKbDomains(<<"HR">>))
    /\ pending = {}
    /\ call = NoCall
    /\ InitStore

NextChat ==
    \/ \E t \in Turns, req \in NonEmptyRequests, uuid4 \in ChatConvIds :
           ChatRequest(t, req, uuid4)
    \/ \E t \in Turns : EmitStart(t)
    \/ \E t \in Turns, db_ok \in BOOLEAN : RecordUser(t, db_ok)
    \/ \E t \in Turns, response \in RetrievalResponses, retrieve_ok, db_ok \in BOOLEAN :
           RetrieveAndFilter(t, response, retrieve_ok, db_ok)
    \/ \E t \in Turns : GenerateDelta(t)
    \/ \E t \in Turns : GenerateError(t)
    \/ \E t \in Turns : GenerateEnd(t, 0)
    \/ \E t \in Turns : Finish(t)
    \/ \E t \in Turns, db_ok \in BOOLEAN : PersistAssistant(t, db_ok)
    \/ \E t \in Turns, db_ok \in BOOLEAN : BedrockError(t, db_ok)
    \/ \E t \in Turns, db_ok \in BOOLEAN : ExceptHandler(t, db_ok)
    \/ \E t \in Turns : SendError(t)

SpecChat == InitChat /\ [][NextChat]_vars

\* one request, with every message length, whose client may disconnect while
\* the stream is open
NextTurn ==
    \/ \E req \in ChatRequests, uuid4 \in ChatConvIds : ChatRequest("t1", req, uuid4)
    \/ EmitStart("t1")
    \/ \E db_ok \in BOOLEAN : RecordUser("t1", db_ok)
    \/ \E response \in RetrievalResponses, retrieve_ok, db_ok \in BOOLEAN :
           RetrieveAndFilter("t1", response, retrieve_ok, db_ok)
    \/ GenerateDelta("t1")
    \/ GenerateError("t1")
    \/ \E usage \in Usages : GenerateEnd("t1", usage)
    \/ Finish("t1")
    \/ \E db_ok \in BOOLEAN : PersistAssistant("t1", db_ok)
    \/ \E db_ok \in BOOLEAN : BedrockError("t1", db_ok)
    \/ \E db_ok \in BOOLEAN : ExceptHandler("t1", db_ok)
    \/ SendError("t1")
    \/ Disconnect("t1")

SpecTurn == InitChat /\ [][NextTurn]_vars

\* the steps the generator takes on its own, once the call it awaited has
\* returned: the event loop runs them whenever they are ready.  The answers of
\* the two oracles (RetrieveAndFilter, GenerateDelta, GenerateError,
\* GenerateEnd) are awaited with no timeout and may never come; a request or a
\* disconnect is the client's choice.
OrchestratorStep(t) ==
    \/ EmitStart(t)
    \/ \E db_ok \in BOOLEAN : RecordUser(t, db_ok)
    \/ Finish(t)
    \/ \E db_ok \in BOOLEAN : PersistAssistant(t, db_ok)
    \/ \E db_ok \in BOOLEAN : BedrockError(t, db_ok)
    \/ \E db_ok \in BOOLEAN : ExceptHandler(t, db_ok)
    \/ SendError(t)

SpecTurnFair == InitChat /\ [][NextTurn]_vars /\ WF_vars(OrchestratorStep("t1"))

\* db_service.get_conversation, the first SELECT: the row of the conversation
\* (its message_count) is read; the function holds no transaction, and the
\* request waits in `pending` for its second SELECT
GetConversationRow(conversation_id) ==
    /\ Cardinality(pending) < MaxPending
    /\ conversation_id \in DOMAIN conversations
    /\ pending' = pending \cup
                      {[op |-> "get_conversation", conversation_id |-> conversation_id,
                        message_count |-> conversations[conversation_id].message_count]}
    /\ UNCHANGED <<kb_domains, group_codes, call, chatVars>>

\* db_service.get_conversation, the second SELECT: the messages of the
\* conversation as they are now; the ConversationDetail is returned
GetConversationMessages(req) ==
    /\ req \in pending
    /\ req.op = "get_conversation"
    /\ pending' = pending \ {req}
    /\ call' = [op |-> "get_conversation", conversation_id |-> req.conversation_id,
                message_count |-> req.message_count,
                messages |-> MessagesOf(messages, req.conversation_id)]
    /\ UNCHANGED <<kb_domains, group_codes, chatVars>>

\* one turn, with history reads and deletes of its conversation running
\* alongside
NextHistory ==
    \/ NextTurn
    \/ \E conversation_id \in ChatConvIds : GetConversationRow(conversation_id)
    \/ \E req \in pending : GetConversationMessages(req)
    \/ \E employee_id \in Callers, conversation_id \in ChatConvIds :
           DeleteConversation(employee_id, conversation_id)

SpecHistory == InitChat /\ [][NextHistory]_vars

----------------------------------------------------------------------------
(* Event stream of a turn: properties *)

\* the types of the events of a stream, in order
Types(events) == [i \in DOMAIN events |-> events[i].type]

Terminal == {"done", "error"}

\* the number of events of the stream with a type in S
CountOf(events, S) == Cardinality({i \in DOMAIN events : events[i].type \in S})

\* the response body has ended
Ended(turn) == turn.pc \in {"closed", "aborted"}

\* C11: the first event of every stream is start, start is sent once, and no
\* token or metadata event follows a done or an error event.
StreamOrdering ==
    \A t \in Turns :
        LET events == turns[t].events
        IN  events # <<>> =>
                /\ events[1].type = "start"
                /\ CountOf(events, {"start"}) = 1
                /\ \A i, j \in DOMAIN events :
                       (i < j /\ events[i].type \in Terminal)
                           => events[j].type \notin {"token", "metadata"}

\* C11 witness: a stream that sent tokens and metadata before done, and an
\* event after done.
StreamOrderingWitness ==
    \E t \in Turns :
        LET events == turns[t].events
        IN  /\ Ended(turns[t])
            /\ CountOf(events, {"token"}) > 1
            /\ CountOf(events, {"metadata"}) = 1
            /\ \E i \in DOMAIN events : events[i].type = "done" /\ i < Len(events)

\* C12: a stream holds at most one terminal event: never both done and error.
AtMostOneTerminal ==
    \A t \in Turns : CountOf(turns[t].events, Terminal) <= 1

\* C13: a stream that sent start has sent done or error when it ends.
EndedStreamHasTerminal ==
    \A t \in Turns :
        (Ended(turns[t]) /\ turns[t].events # <<>>)
            => CountOf(turns[t].events, Terminal) >= 1

\* the turn failed: its stream ended with an error event or was cut off
Failed(turn) ==
    Ended(turn) /\ (turn.pc = "aborted" \/ CountOf(turn.events, {"error"}) > 0)

\* the events of the stream are start, then only tokens, then one error
TokensThenError(events) ==
    /\ Len(events) >= 2
    /\ events[1].type = "start"
    /\ events[Len(events)].type = "error"
    /\ \A i \in 2..(Len(events) - 1) : events[i].type = "token"

\* C14: a turn that failed after its user message was recorded and before an
\* assistant message was recorded sent start, its tokens and then one error
\* event; its user message is no longer stored; and, no other turn writing to
\* the conversation, the message count is the count before the turn.
SagaInvariant ==
    \A t \in Turns :
        LET turn == turns[t]
            c == turn.conversation_id
        IN  (Failed(turn) /\ turn.user_message # 0 /\ turn.assistant_message = 0)
                => /\ TokensThenError(turn.events)
                   /\ turn.user_message \notin {m.message_id : m \in messages}
                   /\ (\A u \in Turns \ {t} : turns[u].conversation_id # c)
                          => conversations[c].message_count = turn.pre_count

\* the stored rows, whatever the time of the last write
Rows == <<conversations, messages, message_seq>>

\* C15: a request naming an existing conversation of another employee is
\* rejected: no stream is opened, no event is sent, and the conversations and
\* messages stay as they were (count and updated_at of the conversation
\* included).
ForeignConversationRejected ==
    [][ \A t \in Turns :
          ( /\ turns[t].pc = "idle"
            /\ turns'[t].pc # "idle"
            /\ turns'[t].conversation_id \in DOMAIN conversations
            /\ conversations[turns'[t].conversation_id].employee_id # turns'[t].employee_id )
          => /\ turns'[t].pc = "rejected"
             /\ turns'[t].status \in {"NOT_OWNER", "INVALID_REQUEST", "MESSAGETOOLONG"}
             /\ turns'[t].events = <<>>
             /\ Rows' = Rows /\ clock' = clock ]_vars

\* C15 witness: a request was rejected NOT_OWNER for a conversation that holds
\* messages of its owner.
ForeignConversationRejectedWitness ==
    \E t \in Turns :
        /\ turns[t].pc = "rejected"
        /\ turns[t].status = "NOT_OWNER"
        /\ turns[t].events = <<>>
        /\ turns[t].conversation_id \in DOMAIN conversations
        /\ conversations[turns[t].conversation_id].message_count > 0

\* C16: in a turn whose retrieval returned hits none of which was allowed, the
\* generation call is never made and the stream ends with done, without error.
FullyBlockedEndsWithDone ==
    \A t \in Turns :
        LET turn == turns[t]
        IN  (turn.retrieval_results > 0 /\ turn.filtered_results = 0)
                => /\ ~turn.invoked
                   /\ Ended(turn) =>
                          /\ turn.events[Len(turn.events)].type = "done"
                          /\ CountOf(turn.events, {"error"}) = 0

\* the index of the done event of a stream that has one
DoneIndex(events) == CHOOSE i \in DOMAIN events : events[i].type = "done"

\* the fully-blocked text of a turn: its length
BlockedText(turn) ==
    BlockedTextLen + PermissionMessageLen(turn.blocked_domains, turn.group_code)

Answered(turn) == turn.branch # None

\* C18: a turn whose retrieval returned no hit answers with the nothing-found
\* text, which is not the fully-blocked text, and then done; the
\* nothing-found answer is given only when no hit was retrieved, the
\* fully-blocked answer only when some hit was.
NothingFoundDistinct ==
    \A t \in Turns :
        LET turn == turns[t]
            events == turn.events
        IN  Answered(turn) =>
                /\ turn.retrieval_results = 0 <=> turn.branch = "nothing"
                /\ turn.branch = "blocked" => turn.retrieval_results > 0
                /\ turn.branch = "nothing" =>
                       /\ turn.full_text = NothingTextLen
                       /\ turn.full_text # BlockedText(turn)
                       /\ ~turn.invoked
                       /\ CountOf(events, {"token"}) > 0
                       /\ turn.pc \in {"persisting", "closed"} =>
                              events[CountOf(events, {"token"}) + 2].type = "done"

\* C18 witness: a turn that retrieved nothing sent the nothing-found text and
\* done.
NothingFoundDistinctWitness ==
    \E t \in Turns :
        /\ turns[t].branch = "nothing"
        /\ turns[t].retrieval_results = 0
        /\ turns[t].pc = "closed"
        /\ turns[t].events[Len(turns[t].events)].type = "done"

----------------------------------------------------------------------------
(* Conversation store: properties *)

\* C19: in every committed state the message_count of each conversation is the
\* number of messages stored for it.
CountMatchesMessages ==
    \A c \in DOMAIN conversations :
        conversations[c].message_count = Cardinality(MessagesOf(messages, c))

\* C19 witness: a message was removed from a conversation that held two and
\* holds one now.
CountMatchesMessagesWitness ==
    /\ call.op = "remove_last_message"
    /\ call.result = TRUE
    /\ call.conversation_id \in DOMAIN conversations
    /\ conversations[call.conversation_id].message_count = 1
    /\ call.before.conversations[call.conversation_id].message_count = 2

\* the messages of the conversation stored under the role before the call
OfRole(rows, conversation_id, role) ==
    {m \in MessagesOf(rows, conversation_id) : m.role = role}

\* C20: remove_last_message(conversation, role) deletes one message, the one
\* of that role added last to the conversation, and decrements the
\* conversation's message_count by one; every other message and every other
\* conversation stays as it was.  With no message of the role it returns
\* false and changes nothing.
CompensateRemovesLastOfRole ==
    (call.op = "remove_last_message" /\ call.role \in Roles)
        => LET c == call.conversation_id
               before == call.before
               candidates == OfRole(before.messages, c, call.role)
           IN  IF c \notin DOMAIN before.conversations \/ candidates = {}
               THEN /\ call.result = FALSE
                    /\ Store = before
               ELSE /\ call.result = TRUE
                    /\ \E m \in candidates :
                           /\ \A o \in candidates : o.message_id <= m.message_id
                           /\ messages = before.messages \ {m}
                    /\ conversations[c].message_count
                           = before.conversations[c].message_count - 1
                    /\ conversations[c].employee_id = before.conversations[c].employee_id
                    /\ DOMAIN conversations = DOMAIN before.conversations
                    /\ \A o \in DOMAIN conversations \ {c} :
                           conversations[o] = before.conversations[o]

\* C20 witness: the later of two user messages was removed from a conversation
\* that also holds an assistant message.
CompensateRemovesLastOfRoleWitness ==
    /\ call.op = "remove_last_message"
    /\ call.role = "user"
    /\ call.result = TRUE
    /\ Cardinality(OfRole(call.before.messages, call.conversation_id, "user")) = 2
    /\ OfRole(messages, call.conversation_id, "assistant") # {}

\* the history handlers that read or change one conversation
HistoryOps == {"get_conversation_detail", "update_conversation_title", "delete_conversation"}

\* C21: a history read or mutation that went through (the conversation was
\* returned, retitled or deleted) was made by a caller whose identity equals
\* the conversation's recorded owner, a caller with no employee identifier
\* included.
HistoryOwnerOnly ==
    call.op \in HistoryOps
        => call.before.conversations[call.conversation_id].employee_id = call.employee_id

\* a request the validation of a turn has to refuse: an empty message or one
\* longer than the bound, no group code, or no caller identity
InvalidRequest(turn) ==
    \/ turn.message = 0
    \/ turn.message > MaxMessageLen
    \/ turn.group_code = ""
    \/ turn.employee_id = ""

\* C22: a turn whose message is empty or longer than the bound, whose group
\* code is absent or whose caller identity is absent is rejected with a client
\* error before any event is emitted, and creates no conversation and no
\* message.
InvalidRequestRejected ==
    \A t \in Turns :
        (turns[t].pc # "idle" /\ InvalidRequest(turns[t]))
            => /\ turns[t].pc = "rejected"
               /\ turns[t].status \in {"MESSAGETOOLONG", "INVALID_REQUEST", "NOT_OWNER"}
               /\ turns[t].events = <<>>
               /\ ~turns[t].is_new_conversation
               /\ turns[t].user_message = 0

\* C23: after any interleaving of the administrative operations, every domain
\* code listed by a stored group is a code of the domain registry.
ReferentialIntegrity ==
    \A g \in DOMAIN group_codes :
        Range(ParseKbDomains(group_codes[g])) \subseteq DOMAIN kb_domains

\* the step sends the start event of turn t
SendsStart(t) ==
    /\ Len(turns'[t].events) = Len(turns[t].events) + 1
    /\ turns'[t].events[Len(turns'[t].events)].type = "start"

InvokesGeneration(t) == ~turns[t].invoked /\ turns'[t].invoked

AdapterError(turn) == turn.service_error # None

\* C26: when the service signals a terminal error, the error event is emitted
\* first and the compensating rollback is invoked after it, and the rollback
\* has completed when the stream closes.
ErrorThenRollback ==
    \A t \in Turns :
        LET turn == turns[t]
        IN  /\ (AdapterError(turn) /\ turn.rollbacks > 0)
                   => CountOf(turn.events, {"error"}) > 0
            /\ (AdapterError(turn) /\ Ended(turn) /\ turn.user_message_saved)
                   => turn.rollbacks = 1

\* an exception reached "except Exception" in the turn
Raised(turn) == turn.pc \in {"except", "aborted"} \/ turn.error = InternalErrorKind

\* C27: a turn in which an exception was raised inside the stream ends with
\* one error event, of the internal-error kind, and the rollback of the user
\* message was invoked if and only if the user message was saved in the turn.
ExceptionMappedToInternalError ==
    \A t \in Turns :
        LET turn == turns[t]
        IN  (Ended(turn) /\ Raised(turn))
                => /\ CountOf(turn.events, {"error"}) = 1
                   /\ turn.events[Len(turn.events)] = ErrorEvent(InternalErrorKind)
                   /\ turn.rollbacks > 0 <=> turn.user_message_saved

\* C28: a turn whose client disconnected after the user message was saved and
\* before an assistant message was stored has been compensated: its user
\* message is deleted and the conversation has its pre-turn message count.
CancelledTurnCompensated ==
    LET turn == turns["t1"]
    IN  (turn.pc = "cancelled" /\ turn.user_message_saved /\ turn.assistant_message = 0)
            => /\ conversations[turn.conversation_id].message_count = turn.pre_count
               /\ \A m \in messages : m.message_id # turn.user_message

\* C29: a metadata event carries one source at least, is the only metadata
\* event of its stream, and no done event precedes it.
MetadataHasCitation ==
    \A t \in Turns :
        LET events == turns[t].events
        IN  \A i \in DOMAIN events :
                events[i].type = "metadata"
                    => /\ events[i].size > 0
                       /\ CountOf(events, {"metadata"}) = 1
                       /\ \A j \in 1..i : events[j].type # "done"

\* C30: in a turn the retrieval call is made once, never again, the
\* generation call at most once, and a turn in which the service signalled a
\* failure ends with that failure reported once: one error event, and no
\* event of an answer after it.
OraclesOnceFailureReportedOnce ==
    \A t \in Turns :
        LET turn == turns[t]
        IN  /\ turn.retrievals <= 1
            /\ (turn.branch # None \/ AdapterError(turn)) => turn.retrievals = 1
            /\ turn.invoked => turn.branch = "generate"
            /\ (AdapterError(turn) /\ Ended(turn))
                   => /\ CountOf(turn.events, {"error"}) = 1
                      /\ turn.events[Len(turn.events)].type = "error"
                      /\ CountOf(turn.events, {"done", "metadata"}) = 0

\* the step takes turn t out of the position after its done event
LeavesPersisting(t) == turns[t].pc = "persisting" /\ turns'[t].pc # "persisting"

\* C31: a turn that sent done after generating text has, once the generator
\* has gone on from there, one assistant message stored in its conversation,
\* whatever delete or other request ran alongside.
AssistantDurable ==
    [][ \A t \in Turns :
          (LeavesPersisting(t) /\ turns[t].branch = "generate" /\ turns[t].full_text > 0)
              => \E m \in messages' :
                     /\ m.message_id = turns'[t].assistant_message
                     /\ m.role = "assistant"
                     /\ m.conversation_id = turns[t].conversation_id ]_vars

\* C32: a history read of a conversation that ran alongside one turn on it (no
\* delete took the conversation away) returns a count that is never lower than
\* the number of messages it returns, and at most one higher.
HistoryCountNearMessages ==
    (call.op = "get_conversation" /\ call.conversation_id \in DOMAIN conversations)
        => /\ call.message_count >= Cardinality(call.messages)
           /\ call.message_count <= Cardinality(call.messages) + 1

\* the messages and the counts that remain after n compensations of the
\* conversation, one after the other
Compensated(st, conversation_id, n) ==
    LET once  == RemoveLastMessage(st, conversation_id, "user").store
        after == IF n = 1 THEN once
                 ELSE RemoveLastMessage(once, conversation_id, "user").store
    IN  [messages |-> after.messages,
         counts   |-> [c \in DOMAIN after.conversations |->
                           after.conversations[c].message_count]]

\* C33: compensating twice leaves the same messages and counts as compensating
\* once.
CompensationIdempotent ==
    \A conversation_id \in DOMAIN conversations :
        Compensated(Store, conversation_id, 2) = Compensated(Store, conversation_id, 1)

\* the turn awaits the retrieval oracle or the next chunk of the generation
\* stream
Waiting(t) == turns[t].pc \in {"retrieving", "generating"}

\* C34: a turn that waits for the retrieval call or for the generation stream
\* leaves that position in the end, whether or not the oracle ever answers.
NoTurnWaitsForever == Waiting("t1") ~> ~Waiting("t1")

\* C35: a conversation leaves the store only in a successful delete_conversation
\* of that conversation (no add_message, remove_last_message or title update
\* takes one away), and once the delete has returned true no message of the
\* conversation is left.
ConversationRemovedOnlyByDelete ==
    [][ /\ \A c \in (DOMAIN conversations) \ (DOMAIN conversations') :
               /\ call'.op = "delete_conversation"
               /\ call'.conversation_id = c
               /\ call'.result
        /\ (call'.op = "delete_conversation" /\ call'.result)
               => MessagesOf(messages', call'.conversation_id) = {} ]_vars

\* a conversation that held messages was deleted
DeletedWithMessages ==
    /\ call.op = "delete_conversation"
    /\ call.result
    /\ MessagesOf(call.before.messages, call.conversation_id) # {}
    /\ call.conversation_id \notin DOMAIN conversations

\* the texts of a list of hits, and the uris of those with a location
TextsOf(results) == {results[i].text : i \in DOMAIN results}
UrisOf(results) == {results[i].uri : i \in {j \in DOMAIN results : results[j].has_uri}}

\* every source a turn sent or stored, and every citation of the service
SourcesOf(turn) ==
    Range(turn.citation_uris) \cup Range(turn.metadata_sources)
        \cup Range(turn.stored_sources)

\* C36: the snippets of the prompt and the sources of the metadata event and
\* of the stored assistant message are taken from the hits the filter allowed,
\* and none of them is the text or the path of a hit the filter blocked.
OnlyAllowedCited ==
    \A t \in Turns :
        /\ Range(turns[t].context_texts) \subseteq TextsOf(turns[t].allowed)
        /\ SourcesOf(turns[t]) \subseteq UrisOf(turns[t].allowed)
        /\ Range(turns[t].context_texts) \cap TextsOf(turns[t].blocked) = {}
        /\ SourcesOf(turns[t]) \cap UrisOf(turns[t].blocked) = {}

\* a turn with an allowed and a blocked hit sent its source and stored it
PartlyBlockedCited ==
    \E t \in Turns :
        /\ turns[t].pc = "closed"
        /\ turns[t].blocked # <<>>
        /\ turns[t].context_texts # <<>>
        /\ turns[t].stored_sources # <<>>
        /\ \E i \in DOMAIN turns[t].events : turns[t].events[i].type = "metadata"

\* C37: the done event of a turn carries the total the model reported when it
\* reported usage, and zero only when it reported none.
DoneReportsUsage ==
    \A t \in Turns :
        CountOf(turns[t].events, {"done"}) > 0
            => turns[t].total_tokens = turns[t].usage

\* C38: of two turns on one conversation that both recorded their user
\* message, when one has been compensated and the other has not, the message
\* that is gone is the compensated turn's own and the other turn's is stored.
CompensationRemovesOwn ==
    \A t \in Turns : \A u \in Turns \ {t} :
        ( /\ turns[t].conversation_id = turns[u].conversation_id
          /\ turns[t].user_message # 0 /\ turns[u].user_message # 0
          /\ turns[t].rollbacks > 0 /\ turns[u].rollbacks = 0 )
            => /\ turns[t].user_message \notin {m.message_id : m \in messages}
               /\ turns[u].user_message \in {m.message_id : m \in messages}

\* C39: while user_message_saved is set, the turn has recorded a user message;
\* a turn whose add_message stored nothing neither calls the model nor
\* compensates.
UserSavedMeansRecorded ==
    \A t \in Turns :
        /\ turns[t].user_message_saved => turns[t].user_message # 0
        /\ (turns[t].pc \notin {"idle", "open", "started", "rejected"}
                /\ turns[t].user_message = 0)
               => ~turns[t].invoked /\ turns[t].rollbacks = 0

\* the stored message with the id, if there is one, has the role
StoredAs(message_id, role) ==
    \E m \in messages : m.message_id = message_id /\ m.role = role

\* C40: a turn that is over and whose stream ended with done after at least
\* one token has stored its user message and then its assistant message, and
\* the count of its conversation is two above the count it found; a turn
\* whose stream ended with error has stored no assistant message.
TurnAddsTwoMessages ==
    \A t \in Turns :
        LET turn == turns[t]
            events == turn.events
        IN  (turn.pc \in {"closed", "aborted", "cancelled"} /\ events # <<>>)
                => /\ (events[Len(events)].type = "done"
                          /\ CountOf(events, {"token"}) >= 1)
                      => /\ StoredAs(turn.user_message, "user")
                         /\ StoredAs(turn.assistant_message, "assistant")
                         /\ turn.user_message < turn.assistant_message
                         /\ conversations[turn.conversation_id].message_count
                                = turn.pre_count + 2
                   /\ events[Len(events)].type = "error"
                      => turn.assistant_message = 0

====
